---------------------------- MODULE Spec2Model ----------------------------
(***************************************************************************)
(* Oblate spheroidal coordinates (cogs::oblate_spheroid): the constructors *)
(* of OblateSpheroid, its accessors, its differential geometry queries and *)
(* its surface tangent query, with the unit circle tangent solver          *)
(* (cogs::unit_circle) that query calls.                                   *)
(*                                                                         *)
(* Numbers.  An f64 is modelled by an exact rational [n, d] in lowest      *)
(* terms with d > 0, or by one of the IEEE special values: d = 0 with      *)
(* n = 1 (+inf), n = -1 (-inf) or n = 0 (NaN).  Arithmetic is exact, so    *)
(* the inputs are drawn from grids on which every square root the code     *)
(* takes is the square root of a rational square, and every angle has a    *)
(* rational cosine and sine.  Rounding, overflow and the sign of zero are  *)
(* not modelled: a tolerance of the source (1e-13, 1e-10) is checked as    *)
(* exact equality.                                                         *)
(***************************************************************************)
EXTENDS Integers, Sequences, FiniteSets, TLC

\* ------------------------------------------------------------------ bounds
\* Largest denominator of the fractions offered as eccentricity and latitude,
\* and of the components of the unit vectors offered as directions.
MaxDen == 5
\* Semimajor axes offered are k/2 for k in -1 .. MaxSma2.
MaxSma2 == 3
\* Cartesian coordinates offered are the integers -MaxCart .. MaxCart.
MaxCart == 4

\* ----------------------------------------------------------------- numbers
Abs(x) == IF x < 0 THEN -x ELSE x

RECURSIVE GCD(_, _)
GCD(a, b) == IF b = 0 THEN a ELSE GCD(b, a % b)

Sign(n) == IF n > 0 THEN 1 ELSE IF n < 0 THEN -1 ELSE 0

\* gcd, with gcd(0, 0) taken as 1; n / g for g dividing n.
Gcd1(a, b) == IF a = 0 /\ b = 0 THEN 1 ELSE GCD(a, b)
Quo(n, g) == Sign(n) * (Abs(n) \div g)

\* The f64 with value n/d (d = 0: +inf, -inf or NaN by the sign of n).
Rat(n, d) ==
    IF d = 0 THEN [n |-> Sign(n), d |-> 0]
    ELSE LET g == GCD(Abs(n), Abs(d))
             s == Sign(d)
         IN  [n |-> s * Sign(n) * (Abs(n) \div g), d |-> Abs(d) \div g]

Num(k) == Rat(k, 1)
Zero == Num(0)
One == Num(1)
NaN == [n |-> 0, d |-> 0]
PosInf == [n |-> 1, d |-> 0]
NegInf == [n |-> -1, d |-> 0]

IsNaN(a) == a = NaN
IsFinite(a) == a.d /= 0

Neg(a) == [n |-> -a.n, d |-> a.d]

Add(a, b) ==
    IF IsNaN(a) \/ IsNaN(b) THEN NaN
    ELSE IF a.d = 0 /\ b.d = 0 THEN (IF a = b THEN a ELSE NaN)
    ELSE IF a.d = 0 THEN a
    ELSE IF b.d = 0 THEN b
    ELSE LET g == GCD(a.d, b.d)
         IN  Rat(a.n * (b.d \div g) + b.n * (a.d \div g), (a.d \div g) * b.d)

Sub(a, b) == Add(a, Neg(b))

\* 0 * inf = NaN, NaN * x = NaN: both come out as 0/0.  (The factors are
\* cancelled crosswise first, to keep the integers small.)
Mul(a, b) ==
    LET g1 == Gcd1(Abs(a.n), b.d)
        g2 == Gcd1(Abs(b.n), a.d)
    IN  Rat(Quo(a.n, g1) * Quo(b.n, g2), (a.d \div g2) * (b.d \div g1))

\* 1/b; 1/0 = +inf, 1/inf = 0, 1/NaN = NaN.
Recip(b) == IF b.n < 0 THEN Rat(-b.d, -b.n) ELSE Rat(b.d, b.n)

Div(a, b) == Mul(a, Recip(b))

\* IEEE comparisons: every comparison with NaN is false.
Lt(a, b) ==
    /\ ~IsNaN(a)
    /\ ~IsNaN(b)
    /\ a /= b
    /\ \/ a = NegInf
       \/ b = PosInf
       \/ /\ IsFinite(a)
          /\ IsFinite(b)
          /\ LET g == GCD(a.d, b.d)
             IN  a.n * (b.d \div g) < b.n * (a.d \div g)

Le(a, b) == ~IsNaN(a) /\ ~IsNaN(b) /\ (a = b \/ Lt(a, b))
Gt(a, b) == Lt(b, a)
Ge(a, b) == Le(b, a)

\* The largest r with r * r <= n, by bisection of lo..hi.
RECURSIVE FloorSqrt(_, _, _)
FloorSqrt(n, lo, hi) ==
    IF lo = hi THEN lo
    ELSE LET mid == (lo + hi + 1) \div 2
         IN  IF mid * mid <= n THEN FloorSqrt(n, mid, hi)
             ELSE FloorSqrt(n, lo, mid - 1)

\* The one candidate for the root of n (46340 is the largest root of a 32-bit
\* integer).
RootCandidates(n) ==
    IF n < 0 THEN {}
    ELSE { FloorSqrt(n, 0, IF n < 46340 THEN n ELSE 46340) }

IsSquareInt(n) == \E r \in RootCandidates(n) : r * r = n
ISqrt(n) == CHOOSE r \in RootCandidates(n) : r * r = n

\* The rationals whose square root is rational (or special).
SqrtExact(a) == ~IsFinite(a) \/ a.n < 0 \/ (IsSquareInt(a.n) /\ IsSquareInt(a.d))

\* f64::sqrt: NaN for a negative argument.  Defined on SqrtExact only.
Sqrt(a) ==
    IF IsNaN(a) \/ a.n < 0 THEN NaN
    ELSE IF a = PosInf THEN PosInf
    ELSE [n |-> ISqrt(a.n), d |-> ISqrt(a.d)]

Sq(a) == Mul(a, a)

\* ------------------------------------------------------------------ angles
\* std::f64::consts::PI, in radians (to four decimals).
PI == Rat(31416, 10000)

\* utl_const::DEG_PER_RAD
DEG_PER_RAD == Div(Num(180), PI)

\* The angles of (-pi, pi] with a rational cosine and sine of denominator 1 or
\* 5: [rad |-> the angle in radians (to four decimals), c |-> cos, s |-> sin].
AngleTable ==
    { [rad |-> Zero,               c |-> One,        s |-> Zero],
      [rad |-> Rat(6435, 10000),   c |-> Rat(4, 5),  s |-> Rat(3, 5)],
      [rad |-> Rat(9273, 10000),   c |-> Rat(3, 5),  s |-> Rat(4, 5)],
      [rad |-> Rat(15708, 10000),  c |-> Zero,       s |-> One],
      [rad |-> Rat(22143, 10000),  c |-> Rat(-3, 5), s |-> Rat(4, 5)],
      [rad |-> Rat(24981, 10000),  c |-> Rat(-4, 5), s |-> Rat(3, 5)],
      [rad |-> PI,                 c |-> Neg(One),   s |-> Zero],
      [rad |-> Rat(-6435, 10000),  c |-> Rat(4, 5),  s |-> Rat(-3, 5)],
      [rad |-> Rat(-9273, 10000),  c |-> Rat(3, 5),  s |-> Rat(-4, 5)],
      [rad |-> Rat(-15708, 10000), c |-> Zero,       s |-> Neg(One)],
      [rad |-> Rat(-22143, 10000), c |-> Rat(-3, 5), s |-> Rat(-4, 5)],
      [rad |-> Rat(-24981, 10000), c |-> Rat(-4, 5), s |-> Rat(-3, 5)] }

IsTableAngle(lam) == \E t \in AngleTable : t.rad = lam

\* f64::cos and f64::sin, on the angles of the table.
Cos(lam) == (CHOOSE t \in AngleTable : t.rad = lam).c
Sin(lam) == (CHOOSE t \in AngleTable : t.rad = lam).s

\* The directions (x, y) whose angle is in the table.
Atan2Exact(y, x) ==
    \/ IsNaN(x) \/ IsNaN(y)
    \/ x = Zero /\ y = Zero
    \/ /\ IsFinite(x) /\ IsFinite(y)
       /\ SqrtExact(Add(Sq(x), Sq(y)))
       /\ LET r == Sqrt(Add(Sq(x), Sq(y)))
          IN  \E t \in AngleTable : t.c = Div(x, r) /\ t.s = Div(y, r)

\* f64::atan2(y, x): the angle of (-pi, pi] of the direction (x, y);
\* atan2(0, 0) = 0.
Atan2(y, x) ==
    IF IsNaN(x) \/ IsNaN(y) THEN NaN
    ELSE IF x = Zero /\ y = Zero THEN Zero
    ELSE LET r == Sqrt(Add(Sq(x), Sq(y)))
         IN  (CHOOSE t \in AngleTable : t.c = Div(x, r) /\ t.s = Div(y, r)).rad

\* --------------------------------------------------------- OblateSpheroid
\* Default::default
Default == [ecc |-> Zero, sma |-> One, lon |-> Zero, lat |-> Zero,
            xyz |-> <<One, Zero, Zero>>]

\* set_with_ose
SetWithOse(os, eccen, smaj, lam, eta) ==
    LET sqometa2 == Sqrt(Sub(One, Mul(eta, eta)))
    IN  [ecc |-> eccen, sma |-> smaj, lon |-> lam, lat |-> eta,
         xyz |-> << Mul(Mul(smaj, sqometa2), Cos(lam)),
                    Mul(Mul(smaj, sqometa2), Sin(lam)),
                    Mul(Mul(smaj, eta), Sqrt(Sub(One, Mul(eccen, eccen)))) >>]

\* set_with_cartesian with the latitude divided by the semimajor axis instead
\* of the semiminor axis.
SetWithCartesian_LatOverSma(os, eccen, cart) ==
    LET x2y2 == Add(Mul(cart[1], cart[1]), Mul(cart[2], cart[2]))
        z2   == Mul(cart[3], cart[3])
        ome2 == Sub(One, Mul(eccen, eccen))
        sma  == Sqrt(Add(x2y2, Div(z2, ome2)))
    IN  [ecc |-> eccen, sma |-> sma,
         lon |-> Atan2(cart[2], cart[1]),
         lat |-> Div(cart[3], sma),
         xyz |-> cart]

\* set_with_cartesian
SetWithCartesian(os, eccen, cart) ==
    LET x2y2 == Add(Mul(cart[1], cart[1]), Mul(cart[2], cart[2]))
        z2   == Mul(cart[3], cart[3])
        ome2 == Sub(One, Mul(eccen, eccen))
        sma  == Sqrt(Add(x2y2, Div(z2, ome2)))
    IN  [ecc |-> eccen, sma |-> sma,
         lon |-> Atan2(cart[2], cart[1]),
         lat |-> Div(cart[3], Mul(sma, Sqrt(ome2))),
         xyz |-> cart]

\* Result<OblateSpheroid, String>
Ok(os) == [tag |-> "Ok", val |-> os]
Err(msg, value) == [tag |-> "Err", val |-> [msg |-> msg, value |-> value]]

\* try_from(&(e, a)) without the check of the semimajor axis.
TryFromEA_SmaUnchecked(eccentricity, semimajor) ==
    IF Lt(eccentricity, Zero) \/ Ge(eccentricity, One)
    THEN Err("Invalid Eccentricity: ", eccentricity)
    ELSE Ok(SetWithOse(Default, eccentricity, semimajor, Zero, Zero))

\* TryFrom<&(f64, f64)>::try_from
TryFromEA(eccentricity, semimajor) ==
    IF Lt(eccentricity, Zero) \/ Ge(eccentricity, One)
    THEN Err("Invalid Eccentricity: ", eccentricity)
    ELSE IF Lt(semimajor, Zero)
    THEN Err("Invalid Semimajor Axis: ", semimajor)
    ELSE Ok(SetWithOse(Default, eccentricity, semimajor, Zero, Zero))

\* try_from(&(e, a, lon, lat)) rejecting the south pole, lat = -1.
TryFromOSE_PoleRejected(eccentricity, semimajor, longitude, latitude) ==
    IF Lt(eccentricity, Zero) \/ Ge(eccentricity, One)
    THEN Err("Invalid Eccentricity: ", eccentricity)
    ELSE IF Lt(semimajor, Zero)
    THEN Err("Invalid Semimajor Axis: ", semimajor)
    ELSE IF Le(longitude, Neg(PI)) \/ Gt(longitude, PI)
    THEN Err("Invalid Longitude: ", Mul(DEG_PER_RAD, longitude))
    ELSE IF Le(latitude, Neg(One)) \/ Gt(latitude, One)
    THEN Err("Invalid Latitude: ", latitude)
    ELSE Ok(SetWithOse(Default, eccentricity, semimajor, longitude, latitude))

\* try_from(&(e, a, lon, lat)) reporting the longitude in radians.
TryFromOSE_LonInRadians(eccentricity, semimajor, longitude, latitude) ==
    IF Lt(eccentricity, Zero) \/ Ge(eccentricity, One)
    THEN Err("Invalid Eccentricity: ", eccentricity)
    ELSE IF Lt(semimajor, Zero)
    THEN Err("Invalid Semimajor Axis: ", semimajor)
    ELSE IF Le(longitude, Neg(PI)) \/ Gt(longitude, PI)
    THEN Err("Invalid Longitude: ", longitude)
    ELSE IF Lt(latitude, Neg(One)) \/ Gt(latitude, One)
    THEN Err("Invalid Latitude: ", latitude)
    ELSE Ok(SetWithOse(Default, eccentricity, semimajor, longitude, latitude))

\* TryFrom<&(f64, f64, f64, f64)>::try_from
TryFromOSE(eccentricity, semimajor, longitude, latitude) ==
    IF Lt(eccentricity, Zero) \/ Ge(eccentricity, One)
    THEN Err("Invalid Eccentricity: ", eccentricity)
    ELSE IF Lt(semimajor, Zero)
    THEN Err("Invalid Semimajor Axis: ", semimajor)
    ELSE IF Le(longitude, Neg(PI)) \/ Gt(longitude, PI)
    THEN Err("Invalid Longitude: ", Mul(DEG_PER_RAD, longitude))
    ELSE IF Lt(latitude, Neg(One)) \/ Gt(latitude, One)
    THEN Err("Invalid Latitude: ", latitude)
    ELSE Ok(SetWithOse(Default, eccentricity, semimajor, longitude, latitude))

\* try_from(&(e, cartesian)) accepting e = 1.
TryFromCartesian_EccOneAccepted(eccentricity, cartesian) ==
    IF Lt(eccentricity, Zero) \/ Gt(eccentricity, One)
    THEN Err("Invalid Eccentricity: ", eccentricity)
    ELSE Ok(SetWithCartesian(Default, eccentricity, cartesian))

\* TryFrom<&(f64, na::SMatrix<f64, 3, 1>)>::try_from
TryFromCartesian(eccentricity, cartesian) ==
    IF Lt(eccentricity, Zero) \/ Ge(eccentricity, One)
    THEN Err("Invalid Eccentricity: ", eccentricity)
    ELSE Ok(SetWithCartesian(Default, eccentricity, cartesian))

\* Accessors.
eccentricity(os) == os.ecc
semimajor(os) == os.sma
semiminor(os) == Mul(os.sma, Sqrt(Sub(One, Mul(os.ecc, os.ecc))))
longitude(os) == os.lon
latitude(os) == os.lat
cartesian(os) == os.xyz

\* ------------------------------------------------------ vectors, matrices
\* na::SMatrix<f64, 3, 1> is a tuple of 3 numbers; na::SMatrix<f64, 3, 3> is
\* a tuple of 3 rows.
Dot(u, v) == Add(Add(Mul(u[1], v[1]), Mul(u[2], v[2])), Mul(u[3], v[3]))

Col(m, j) == <<m[1][j], m[2][j], m[3][j]>>

\* Matrix product.
MatMul(m, k) == [i \in 1..3 |-> [j \in 1..3 |-> Dot(m[i], Col(k, j))]]

\* na::SMatrix::identity()
Identity == [i \in 1..3 |-> [j \in 1..3 |-> IF i = j THEN One ELSE Zero]]

\* u.cross(&v)
Cross(u, v) ==
    << Sub(Mul(u[2], v[3]), Mul(u[3], v[2])),
       Sub(Mul(u[3], v[1]), Mul(u[1], v[3])),
       Sub(Mul(u[1], v[2]), Mul(u[2], v[1])) >>

\* m.determinant() of a 3x3 matrix
Determinant(m) ==
    LET minor_m12_m23 == Sub(Mul(m[2][2], m[3][3]), Mul(m[3][2], m[2][3]))
        minor_m11_m23 == Sub(Mul(m[2][1], m[3][3]), Mul(m[3][1], m[2][3]))
        minor_m11_m22 == Sub(Mul(m[2][1], m[3][2]), Mul(m[3][1], m[2][2]))
    IN  Add(Sub(Mul(m[1][1], minor_m12_m23), Mul(m[1][2], minor_m11_m23)),
            Mul(m[1][3], minor_m11_m22))

\* na::SMatrix::from_columns(&[c1, c2, c3])
FromColumns(c1, c2, c3) == [i \in 1..3 |-> <<c1[i], c2[i], c3[i]>>]

\* m.transpose()
Transpose(m) == [i \in 1..3 |-> Col(m, i)]

\* (m - k).norm_squared()
DiffNormSquared(m, k) ==
    LET d(i, j) == Sq(Sub(m[i][j], k[i][j]))
        row(i) == Add(Add(d(i, 1), d(i, 2)), d(i, 3))
    IN  Add(Add(row(1), row(2)), row(3))

\* m * v for a 3x3 matrix and a 3-vector
MatVec(m, v) == <<Dot(m[1], v), Dot(m[2], v), Dot(m[3], v)>>

\* na::Unit::new_normalize(v).into_inner(): v divided by its norm, with no
\* test of the norm (a zero vector gives 0/0 in every component).
Normalize(v) ==
    LET n == Sqrt(Dot(v, v))
    IN  <<Div(v[1], n), Div(v[2], n), Div(v[3], n)>>

\* u.dot(&v) for na::SMatrix<f64, 2, 1>
Dot2(u, v) == Add(Mul(u[1], v[1]), Mul(u[2], v[2]))

\* -------------------------------------------------------------- unit circle
\* unit_circle::tangent returning pos itself, not normalised, when pos is
\* not outside the circle.
tangent_InsideUnnormalised(pos, pnt) ==
    LET r2 == Dot2(pos, pos)
        rmag == Sqrt(r2)
        rhat == <<Div(pos[1], rmag), Div(pos[2], rmag)>>
        s2 == Sub(r2, One)
    IN  IF Le(s2, Zero) THEN pos
        ELSE LET s == Sqrt(s2)
                 sa == Div(One, rmag)
                 ca == Mul(s, sa)
                 rhat_orth == <<Neg(rhat[2]), rhat[1]>>
                 k == Sub(rmag, Mul(s, ca))
                 tpa == <<Mul(k, rhat[1]), Mul(k, rhat[2])>>
                 tpn == <<Mul(Mul(s, sa), rhat_orth[1]),
                          Mul(Mul(s, sa), rhat_orth[2])>>
             IN  IF Gt(Dot2(pnt, rhat_orth), Zero)
                 THEN <<Add(tpa[1], tpn[1]), Add(tpa[2], tpn[2])>>
                 ELSE <<Sub(tpa[1], tpn[1]), Sub(tpa[2], tpn[2])>>

\* unit_circle::tangent with the cosine of the subtended angle in place of
\* its sine in the component along rhat_orth.
tangent_CosForSin(pos, pnt) ==
    LET r2 == Dot2(pos, pos)
        rmag == Sqrt(r2)
        rhat == <<Div(pos[1], rmag), Div(pos[2], rmag)>>
        s2 == Sub(r2, One)
    IN  IF Le(s2, Zero) THEN rhat
        ELSE LET s == Sqrt(s2)
                 sa == Div(One, rmag)
                 ca == Mul(s, sa)
                 rhat_orth == <<Neg(rhat[2]), rhat[1]>>
                 k == Sub(rmag, Mul(s, ca))
                 tpa == <<Mul(k, rhat[1]), Mul(k, rhat[2])>>
                 tpn == <<Mul(Mul(s, ca), rhat_orth[1]),
                          Mul(Mul(s, ca), rhat_orth[2])>>
             IN  IF Gt(Dot2(pnt, rhat_orth), Zero)
                 THEN <<Add(tpa[1], tpn[1]), Add(tpa[2], tpn[2])>>
                 ELSE <<Sub(tpa[1], tpn[1]), Sub(tpa[2], tpn[2])>>

\* unit_circle::tangent taking the '+' side also when pnt . rhat_orth = 0.
tangent_SideGe(pos, pnt) ==
    LET r2 == Dot2(pos, pos)
        rmag == Sqrt(r2)
        rhat == <<Div(pos[1], rmag), Div(pos[2], rmag)>>
        s2 == Sub(r2, One)
    IN  IF Le(s2, Zero) THEN rhat
        ELSE LET s == Sqrt(s2)
                 sa == Div(One, rmag)
                 ca == Mul(s, sa)
                 rhat_orth == <<Neg(rhat[2]), rhat[1]>>
                 k == Sub(rmag, Mul(s, ca))
                 tpa == <<Mul(k, rhat[1]), Mul(k, rhat[2])>>
                 tpn == <<Mul(Mul(s, sa), rhat_orth[1]),
                          Mul(Mul(s, sa), rhat_orth[2])>>
             IN  IF Ge(Dot2(pnt, rhat_orth), Zero)
                 THEN <<Add(tpa[1], tpn[1]), Add(tpa[2], tpn[2])>>
                 ELSE <<Sub(tpa[1], tpn[1]), Sub(tpa[2], tpn[2])>>

\* unit_circle::tangent
tangent(pos, pnt) ==
    LET r2 == Dot2(pos, pos)
        rmag == Sqrt(r2)
        rhat == <<Div(pos[1], rmag), Div(pos[2], rmag)>>
        s2 == Sub(r2, One)
    IN  IF Le(s2, Zero) THEN rhat
        ELSE LET s == Sqrt(s2)
                 sa == Div(One, rmag)
                 ca == Mul(s, sa)
                 rhat_orth == <<Neg(rhat[2]), rhat[1]>>
                 k == Sub(rmag, Mul(s, ca))
                 tpa == <<Mul(k, rhat[1]), Mul(k, rhat[2])>>
                 tpn == <<Mul(Mul(s, sa), rhat_orth[1]),
                          Mul(Mul(s, sa), rhat_orth[2])>>
             IN  IF Gt(Dot2(pnt, rhat_orth), Zero)
                 THEN <<Add(tpa[1], tpn[1]), Add(tpa[2], tpn[2])>>
                 ELSE <<Sub(tpa[1], tpn[1]), Sub(tpa[2], tpn[2])>>

\* ------------------------------------------------------------------ queries
\* jacobian
jacobian(os) ==
    LET a == os.sma
        eta == os.lat
        sqome2 == Sqrt(Sub(One, Mul(os.ecc, os.ecc)))
        sqometa2 == Sqrt(Sub(One, Mul(eta, eta)))
        cl == Cos(os.lon)
        sl == Sin(os.lon)
    IN  << << Mul(sqometa2, cl), Mul(Mul(Neg(a), sqometa2), sl),
              Div(Mul(Mul(Neg(a), eta), cl), sqometa2) >>,
           << Mul(sqometa2, sl), Mul(Mul(a, sqometa2), cl),
              Div(Mul(Mul(Neg(a), eta), sl), sqometa2) >>,
           << Mul(eta, sqome2), Zero, Mul(a, sqome2) >> >>

\* covariant_basis with the z component of the first vector not scaled by
\* sqrt(1 - e^2).
covariant_basis_NoSqome2(os) ==
    LET a == os.sma
        eta == os.lat
        sqome2 == Sqrt(Sub(One, Mul(os.ecc, os.ecc)))
        sqometa2 == Sqrt(Sub(One, Mul(eta, eta)))
        cl == Cos(os.lon)
        sl == Sin(os.lon)
    IN  << << Mul(sqometa2, cl), Mul(sqometa2, sl), eta >>,
           << Mul(Mul(Neg(a), sqometa2), sl), Mul(Mul(a, sqometa2), cl), Zero >>,
           << Div(Mul(Mul(Neg(a), eta), cl), sqometa2),
              Div(Mul(Mul(Neg(a), eta), sl), sqometa2),
              Mul(a, sqome2) >> >>

\* covariant_basis
covariant_basis(os) ==
    LET a == os.sma
        eta == os.lat
        sqome2 == Sqrt(Sub(One, Mul(os.ecc, os.ecc)))
        sqometa2 == Sqrt(Sub(One, Mul(eta, eta)))
        cl == Cos(os.lon)
        sl == Sin(os.lon)
    IN  << << Mul(sqometa2, cl), Mul(sqometa2, sl), Mul(eta, sqome2) >>,
           << Mul(Mul(Neg(a), sqometa2), sl), Mul(Mul(a, sqometa2), cl), Zero >>,
           << Div(Mul(Mul(Neg(a), eta), cl), sqometa2),
              Div(Mul(Mul(Neg(a), eta), sl), sqometa2),
              Mul(a, sqome2) >> >>

\* covariant_metric
covariant_metric(os) ==
    LET a2 == Mul(os.sma, os.sma)
        e2 == Mul(os.ecc, os.ecc)
        eta2 == Mul(os.lat, os.lat)
        ometa2 == Sub(One, eta2)
        naetae2 == Mul(Mul(Mul(Neg(One), os.sma), os.lat), e2)
    IN  << << Sub(One, Mul(e2, eta2)), Zero, naetae2 >>,
           << Zero, Mul(a2, ometa2), Zero >>,
           << naetae2, Zero,
              Mul(a2, Add(Sub(One, e2), Div(eta2, ometa2))) >> >>

\* volume_element without the square root: a^2 (1 - e^2).
volume_element_NoSqrt(os) ==
    Mul(Mul(os.sma, os.sma), Sub(One, Mul(os.ecc, os.ecc)))

\* volume_element
volume_element(os) ==
    Mul(Mul(os.sma, os.sma), Sqrt(Sub(One, Mul(os.ecc, os.ecc))))

\* inverse_jacobian with da/dz = z/a, the division by 1 - e^2 left out.
inverse_jacobian_NoOme2(os) ==
    LET a == os.sma
        ainv == Div(One, a)
        ainv2 == Mul(ainv, ainv)
        ainv3 == Mul(ainv, ainv2)
        ome2 == Sub(One, Mul(os.ecc, os.ecc))
        sqome2inv == Div(One, Sqrt(ome2))
        x == os.xyz[1]
        x2 == Mul(x, x)
        y == os.xyz[2]
        y2 == Mul(y, y)
        z == os.xyz[3]
    IN  << << Mul(ainv, x), Mul(ainv, y), Mul(ainv, z) >>,
           << Div(Neg(y), Add(x2, y2)),
              Div(One, Mul(x, Add(One, Div(y2, x2)))),
              Zero >>,
           << Mul(Mul(Mul(Neg(ainv3), x), z), sqome2inv),
              Mul(Mul(Mul(Neg(ainv3), y), z), sqome2inv),
              Mul(Mul(ainv, sqome2inv),
                  Sub(One, Div(Mul(Mul(z, z), ainv2), ome2))) >> >>

\* inverse_jacobian
inverse_jacobian(os) ==
    LET a == os.sma
        ainv == Div(One, a)
        ainv2 == Mul(ainv, ainv)
        ainv3 == Mul(ainv, ainv2)
        ome2 == Sub(One, Mul(os.ecc, os.ecc))
        sqome2inv == Div(One, Sqrt(ome2))
        x == os.xyz[1]
        x2 == Mul(x, x)
        y == os.xyz[2]
        y2 == Mul(y, y)
        z == os.xyz[3]
    IN  << << Mul(ainv, x), Mul(ainv, y), Div(Mul(ainv, z), ome2) >>,
           << Div(Neg(y), Add(x2, y2)),
              Div(One, Mul(x, Add(One, Div(y2, x2)))),
              Zero >>,
           << Mul(Mul(Mul(Neg(ainv3), x), z), sqome2inv),
              Mul(Mul(Mul(Neg(ainv3), y), z), sqome2inv),
              Mul(Mul(ainv, sqome2inv),
                  Sub(One, Div(Mul(Mul(z, z), ainv2), ome2))) >> >>

\* contravariant_basis with the z component of the first vector multiplied,
\* not divided, by sqrt(1 - e^2) (the covariant value).
contravariant_basis_CovariantZ(os) ==
    LET a == os.sma
        eta == os.lat
        ometa2 == Sub(One, Mul(eta, eta))
        sqome2 == Sqrt(Sub(One, Mul(os.ecc, os.ecc)))
        sqometa2 == Sqrt(ometa2)
        cl == Cos(os.lon)
        sl == Sin(os.lon)
    IN  << << Mul(sqometa2, cl), Mul(sqometa2, sl), Mul(eta, sqome2) >>,
           << Div(Neg(sl), Mul(a, sqometa2)), Div(cl, Mul(a, sqometa2)), Zero >>,
           << Div(Mul(Mul(Neg(eta), sqometa2), cl), a),
              Div(Mul(Mul(Neg(eta), sqometa2), sl), a),
              Div(ometa2, Mul(a, sqome2)) >> >>

\* contravariant_basis
contravariant_basis(os) ==
    LET a == os.sma
        eta == os.lat
        ometa2 == Sub(One, Mul(eta, eta))
        sqome2 == Sqrt(Sub(One, Mul(os.ecc, os.ecc)))
        sqometa2 == Sqrt(ometa2)
        cl == Cos(os.lon)
        sl == Sin(os.lon)
    IN  << << Mul(sqometa2, cl), Mul(sqometa2, sl), Div(eta, sqome2) >>,
           << Div(Neg(sl), Mul(a, sqometa2)), Div(cl, Mul(a, sqometa2)), Zero >>,
           << Div(Mul(Mul(Neg(eta), sqometa2), cl), a),
              Div(Mul(Mul(Neg(eta), sqometa2), sl), a),
              Div(ometa2, Mul(a, sqome2)) >> >>

\* contravariant_metric with the sign of the off-diagonal term of the
\* covariant metric.
contravariant_metric_OffDiagSign(os) ==
    LET e2 == Mul(os.ecc, os.ecc)
        eta2 == Mul(os.lat, os.lat)
        ome2 == Sub(One, e2)
        ometa2 == Sub(One, eta2)
        inv_a == Div(One, os.sma)
        inv_a2 == Mul(inv_a, inv_a)
        inv_ome2 == Div(One, ome2)
        off_diag == Neg(Mul(Mul(Mul(Mul(os.lat, e2), ometa2), inv_ome2), inv_a))
        z_11 == Add(One, Mul(Mul(e2, eta2), inv_ome2))
        z_33 == Mul(Mul(Mul(ometa2, Sub(One, Mul(e2, eta2))), inv_ome2), inv_a2)
    IN  << << z_11, Zero, off_diag >>,
           << Zero, Div(inv_a2, ometa2), Zero >>,
           << off_diag, Zero, z_33 >> >>

\* contravariant_metric
contravariant_metric(os) ==
    LET e2 == Mul(os.ecc, os.ecc)
        eta2 == Mul(os.lat, os.lat)
        ome2 == Sub(One, e2)
        ometa2 == Sub(One, eta2)
        inv_a == Div(One, os.sma)
        inv_a2 == Mul(inv_a, inv_a)
        inv_ome2 == Div(One, ome2)
        off_diag == Mul(Mul(Mul(Mul(os.lat, e2), ometa2), inv_ome2), inv_a)
        z_11 == Add(One, Mul(Mul(e2, eta2), inv_ome2))
        z_33 == Mul(Mul(Mul(ometa2, Sub(One, Mul(e2, eta2))), inv_ome2), inv_a2)
    IN  << << z_11, Zero, off_diag >>,
           << Zero, Div(inv_a2, ometa2), Zero >>,
           << off_diag, Zero, z_33 >> >>

\* surface_tangent: the affine transformation to unit-sphere space,
\* diag(1/a, 1/a, 1/semiminor).
affine(os) ==
    << << Div(One, os.sma), Zero, Zero >>,
       << Zero, Div(One, os.sma), Zero >>,
       << Zero, Zero, Div(One, semiminor(os)) >> >>

\* surface_tangent: the transformation back, diag(a, a, semiminor).
affine_inverse(os) ==
    << << os.sma, Zero, Zero >>,
       << Zero, os.sma, Zero >>,
       << Zero, Zero, semiminor(os) >> >>

\* The frame of surface_tangent with xhat = zhat x yhat.
frame_to_3d_LeftHanded(pos_aff, zhat) ==
    FromColumns(Normalize(Cross(zhat, pos_aff)), Normalize(pos_aff),
                Normalize(zhat))

\* surface_tangent: the frame of the plane of pos_aff and pnt_aff, as the
\* matrix to_3d with columns xhat, yhat, zhat, each normalised: yhat along
\* pos_aff, zhat = pos_aff x pnt_aff normal to the plane, xhat = yhat x zhat.
frame_to_3d(pos_aff, zhat) ==
    FromColumns(Normalize(Cross(pos_aff, zhat)), Normalize(pos_aff),
                Normalize(zhat))

\* v.fixed_view::<2,1>(0,0)
fixed_view(v) == <<v[1], v[2]>>

\* surface_tangent: the two vectors in the frame to_3d, r and p.
frame_project(pos_aff, pnt_aff, to_3d) ==
    [pos_aff |-> pos_aff, pnt_aff |-> pnt_aff, to_3d |-> to_3d,
     r |-> fixed_view(MatVec(Transpose(to_3d), pos_aff)),
     p |-> fixed_view(MatVec(Transpose(to_3d), pnt_aff))]

\* surface_tangent, up to the call of unit_circle::tangent: the position and
\* pointing vectors in unit-sphere space, the frame of the plane they span,
\* and the two vectors in that plane.
tangent_frame(os, pos, pnt) ==
    LET pos_aff == MatVec(affine(os), pos)
        pnt_aff == MatVec(affine(os), pnt)
    IN  frame_project(pos_aff, pnt_aff,
                      frame_to_3d(pos_aff, Cross(pos_aff, pnt_aff)))

\* The transformation back without the affine map: the tangent point of the
\* unit sphere.
from_plane_NoUnscale(os, to_3d, xy) ==
    MatVec(to_3d, <<xy[1], xy[2], Zero>>)

\* The transformation back with the semimajor axis along z too.
from_plane_SemimajorZ(os, to_3d, xy) ==
    LET back == << << os.sma, Zero, Zero >>,
                   << Zero, os.sma, Zero >>,
                   << Zero, Zero, os.sma >> >>
    IN  MatVec(MatMul(back, to_3d), <<xy[1], xy[2], Zero>>)

\* surface_tangent: the point xy of the plane, back in 3-D and on the
\* spheroid, aff * to_3d * xyz.
from_plane(os, to_3d, xy) ==
    MatVec(MatMul(affine_inverse(os), to_3d), <<xy[1], xy[2], Zero>>)

\* surface_tangent: the call of unit_circle::tangent and the way back.
solve_in_plane(os, f) == from_plane(os, f.to_3d, tangent(f.r, f.p))

\* surface_tangent
surface_tangent(os, pos, pnt) ==
    solve_in_plane(os, tangent_frame(os, pos, pnt))

\* ------------------------------------------------------------------ inputs
\* The fractions f = p/q, q <= MaxDen, with |f| <= 1 + 1/q, whose complement
\* 1 - f^2 has an exact square root: the eccentricities and latitudes
\* offered, in range (0, 3/5, 4/5, 1, ...) and out of range (6/5, 2, ...).
UnitGrid ==
    { f \in { Rat(p, q) : p \in -(MaxDen + 1)..(MaxDen + 1), q \in 1..MaxDen } :
        /\ Abs(f.n) <= f.d + 1
        /\ SqrtExact(Sub(One, Sq(f))) }

\* Semimajor axes offered: -1/2, 0, 1/2, 1, ...
SmaGrid == { Rat(k, 2) : k \in -1..MaxSma2 }

\* Longitudes offered.  In range: the angles of the table whose cosine is not
\* zero (f64::cos returns no exact zero: cos(FRAC_PI_2) is 6.1e-17, so the
\* code never computes x = 0 from a longitude).  Out of range: -pi, the next
\* value above pi, and -4.
LonGrid ==
    { t.rad : t \in { u \in AngleTable : u.c /= Zero } }
        \cup { Neg(PI), Add(PI, Rat(1, 10000)), Num(-4) }

\* Cartesian points offered.
CartGrid ==
    { <<Num(x), Num(y), Num(z)>> :
        x \in -MaxCart..MaxCart, y \in -MaxCart..MaxCart, z \in -MaxCart..MaxCart }

\* The (e, cartesian) on which set_with_cartesian is exact in this model.
CartExact(e, c) ==
    LET ome2 == Sub(One, Sq(e))
    IN  /\ SqrtExact(ome2)
        /\ SqrtExact(Add(Add(Sq(c[1]), Sq(c[2])), Div(Sq(c[3]), ome2)))
        /\ Atan2Exact(c[2], c[1])

\* Distances from the centre offered, in unit-sphere (unit-circle) units:
\* inside (0, 3/5, 4/5), on (1) and outside (5/4, 5/3) the unit sphere, the
\* distances r > 1 having an exact sqrt(r^2 - 1).
RadiusGrid ==
    { f \in UnitGrid : Le(Zero, f) /\ Le(f, One) }
        \cup { Div(One, f) : f \in { g \in UnitGrid : Lt(Zero, g) /\ Lt(g, One) } }

\* Positions offered to unit_circle::tangent: every distance along every
\* direction of the angle table.
CircleGrid ==
    { <<Mul(r, t.c), Mul(r, t.s)>> : r \in RadiusGrid, t \in AngleTable }

\* Pointing vectors offered to unit_circle::tangent.
CirclePntGrid == { <<Num(x), Num(y)>> : x \in -1..1, y \in -1..1 }

\* The unit vectors (p1, p2, p3)/q with q <= MaxDen.
UnitVectors ==
    { v \in { <<Rat(p1, q), Rat(p2, q), Rat(p3, q)>> :
                 p1 \in -MaxDen..MaxDen, p2 \in -MaxDen..MaxDen,
                 p3 \in -MaxDen..MaxDen, q \in 1..MaxDen } :
        Dot(v, v) = One }

\* Positions offered to surface_tangent, as they are in unit-sphere space:
\* every distance along every unit vector.
SpherePosGrid ==
    { <<Mul(r, u[1]), Mul(r, u[2]), Mul(r, u[3])>> :
        r \in RadiusGrid, u \in UnitVectors }

\* Pointing vectors offered to surface_tangent, as they are in unit-sphere
\* space: the zero vector and the two directions of each coordinate axis.
SpherePntGrid ==
    { v \in { <<Num(x), Num(y), Num(z)>> :
                 x \in -1..1, y \in -1..1, z \in -1..1 } :
        Le(Dot(v, v), One) }

\* The (position, pointing vector) on which surface_tangent is exact in this
\* model: the norm of their cross product is rational (or zero).
TangentPairs ==
    { pq \in SpherePosGrid \X SpherePntGrid :
        LET zhat == Cross(pq[1], pq[2]) IN SqrtExact(Dot(zhat, zhat)) }

NoArgs == [e |-> Zero, a |-> Zero, lon |-> Zero, lat |-> Zero,
           cart |-> <<Zero, Zero, Zero>>]
NoResult == [tag |-> "None", val |-> [msg |-> "", value |-> Zero]]
NoQuery == [pos |-> <<>>, pnt |-> <<>>]
NoPoint == <<>>

\* ------------------------------------------------------------------- state
VARIABLES
    pc,     \* "start", "built" (one constructor has returned), "done",
            \* "tangent" (unit_circle::tangent has returned), "queried"
            \* (surface_tangent has returned), "rebuilt"
    ctor,   \* the constructor called: "default", "ea", "ose", "cart"
    args,   \* its arguments
    res,    \* its Result
    res2,   \* the Result of the reconstruction from (e, cartesian()), or
            \* the instance set from (e, tangent point)
    qry,    \* the position and pointing vector of the tangent query
    tp      \* the tangent point returned

vars == <<pc, ctor, args, res, res2, qry, tp>>

Init ==
    /\ pc = "start"
    /\ ctor = "none"
    /\ args = NoArgs
    /\ res = NoResult
    /\ res2 = NoResult
    /\ qry = NoQuery
    /\ tp = NoPoint

\* OblateSpheroid::default()
CallDefault ==
    /\ pc = "start"
    /\ pc' = "built"
    /\ ctor' = "default"
    /\ args' = NoArgs
    /\ res' = Ok(Default)
    /\ UNCHANGED <<res2, qry, tp>>

\* OblateSpheroid::try_from(&(e, a))
CallTryFromEA ==
    /\ pc = "start"
    /\ \E e \in UnitGrid, a \in SmaGrid :
        /\ args' = [NoArgs EXCEPT !.e = e, !.a = a]
        /\ res' = TryFromEA(e, a)
    /\ pc' = "built"
    /\ ctor' = "ea"
    /\ UNCHANGED <<res2, qry, tp>>

\* OblateSpheroid::try_from(&(e, a, lon, lat))
CallTryFromOSE ==
    /\ pc = "start"
    /\ \E e \in UnitGrid, a \in SmaGrid, lon \in LonGrid, lat \in UnitGrid :
        /\ args' = [NoArgs EXCEPT !.e = e, !.a = a, !.lon = lon, !.lat = lat]
        /\ res' = TryFromOSE(e, a, lon, lat)
    /\ pc' = "built"
    /\ ctor' = "ose"
    /\ UNCHANGED <<res2, qry, tp>>

\* OblateSpheroid::try_from(&(e, cartesian))
CallTryFromCartesian ==
    /\ pc = "start"
    /\ \E e \in UnitGrid, c \in CartGrid :
        /\ CartExact(e, c)
        /\ args' = [NoArgs EXCEPT !.e = e, !.cart = c]
        /\ res' = TryFromCartesian(e, c)
    /\ pc' = "built"
    /\ ctor' = "cart"
    /\ UNCHANGED <<res2, qry, tp>>

\* test_consistency main: os2 = try_from(&(ecc, os1.cartesian())), for an os1
\* built from oblate spheroidal coordinates.
RoundTrip ==
    /\ pc = "built"
    /\ ctor = "ose"
    /\ res.tag = "Ok"
    /\ res2' = TryFromCartesian(args.e, cartesian(res.val))
    /\ pc' = "done"
    /\ UNCHANGED <<ctor, args, res, qry, tp>>

\* unit_circle::tangent(&pos, &pnt)
CallTangent ==
    /\ pc = "start"
    /\ \E pos \in CircleGrid, pnt \in CirclePntGrid :
        /\ qry' = [pos |-> pos, pnt |-> pnt]
        /\ tp' = tangent(pos, pnt)
    /\ pc' = "tangent"
    /\ UNCHANGED <<ctor, args, res, res2>>

\* os.surface_tangent(&pos, &pnt), for an os from try_from(&(e, a)); pos and
\* pnt are the images under diag(a, a, semiminor)
\* of a pair offered in unit-sphere space.
CallSurfaceTangent ==
    /\ pc = "built"
    /\ ctor = "ea"
    /\ res.tag = "Ok"
    /\ \E pq \in TangentPairs :
        LET pos == MatVec(affine_inverse(res.val), pq[1])
            pnt == MatVec(affine_inverse(res.val), pq[2])
        IN  /\ qry' = [pos |-> pos, pnt |-> pnt]
            /\ tp' = surface_tangent(res.val, pos, pnt)
    /\ pc' = "queried"
    /\ UNCHANGED <<ctor, args, res, res2>>

\* tests::os_surface_tangent: os.set_with_cartesian(ecc, &tp), on the
\* tangent points that are finite and where it is exact in this model.
SetWithTangentPoint ==
    /\ pc = "queried"
    /\ \A i \in 1..3 : IsFinite(tp[i])
    /\ CartExact(res.val.ecc, tp)
    /\ res2' = Ok(SetWithCartesian(res.val, res.val.ecc, tp))
    /\ pc' = "rebuilt"
    /\ UNCHANGED <<ctor, args, res, qry, tp>>

Next ==
    \/ CallDefault
    \/ CallTryFromEA
    \/ CallTryFromOSE
    \/ CallTryFromCartesian
    \/ RoundTrip
    \/ CallTangent
    \/ CallSurfaceTangent
    \/ SetWithTangentPoint

Spec == Init /\ [][Next]_vars

\* ================================================================== claims
Returned == pc \in {"built", "done"}

\* The documented ranges of the four oblate spheroidal parameters.
EccInRange(e) == Le(Zero, e) /\ Lt(e, One)
SmaInRange(a) == Le(Zero, a)
LonInRange(lon) == Lt(Neg(PI), lon) /\ Le(lon, PI)
LatInRange(lat) == Le(Neg(One), lat) /\ Le(lat, One)

C3_CartesianConstructor ==
    (Returned /\ ctor = "cart") =>
        /\ res.tag = "Err" <=> (Lt(args.e, Zero) \/ Ge(args.e, One))
        /\ res.tag = "Ok" =>
             /\ eccentricity(res.val) = args.e
             /\ cartesian(res.val) = args.cart

\* C3 witness: a point off the axes, and a valid eccentricity.
C3_Witness ==
    /\ Returned /\ ctor = "cart" /\ res.tag = "Ok"
    /\ args.e = Rat(3, 5) /\ args.cart = <<Num(3), Num(-4), Zero>>

\* C4: a failed construction returns an error (no instance) naming the first
\* parameter out of range, in the order eccentricity, semimajor axis,
\* longitude, latitude, with its value; a longitude is given in degrees.
C4_ErrorNamesFirstFailure ==
    (Returned /\ res.tag /= "Ok") =>
        /\ res.tag = "Err"
        /\ ctor \in {"ea", "ose", "cart"}
        /\ res.val =
             IF ~EccInRange(args.e)
             THEN [msg |-> "Invalid Eccentricity: ", value |-> args.e]
             ELSE IF ~SmaInRange(args.a)
             THEN [msg |-> "Invalid Semimajor Axis: ", value |-> args.a]
             ELSE IF ~LonInRange(args.lon)
             THEN [msg |-> "Invalid Longitude: ",
                   value |-> Div(Mul(args.lon, Num(180)), PI)]
             ELSE [msg |-> "Invalid Latitude: ", value |-> args.lat]
        /\ ctor = "ea" => ~(EccInRange(args.e) /\ SmaInRange(args.a))
        /\ ctor = "cart" => ~EccInRange(args.e)
        /\ ctor = "ose" => ~(/\ EccInRange(args.e) /\ SmaInRange(args.a)
                             /\ LonInRange(args.lon) /\ LatInRange(args.lat))

\* C4 witness: longitude -pi and latitude 6/5 are both out of range; the
\* error names the longitude, -180 degrees.
C4_Witness ==
    /\ Returned /\ ctor = "ose" /\ res.tag = "Err"
    /\ args.lon = Neg(PI) /\ args.lat = Rat(6, 5)
    /\ res.val = [msg |-> "Invalid Longitude: ", value |-> Num(-180)]

\* C5: every constructed instance has 0 <= e < 1, a >= 0, -pi < longitude <= pi
\* and -1 <= latitude <= 1.
C5_FieldRanges ==
    (Returned /\ res.tag = "Ok") =>
        /\ EccInRange(eccentricity(res.val))
        /\ SmaInRange(semimajor(res.val))
        /\ LonInRange(longitude(res.val))
        /\ LatInRange(latitude(res.val))

\* The forward map of the oblate spheroidal coordinates of an instance.
ForwardMap(os) ==
    LET sqome2 == Sqrt(Sub(One, Sq(os.ecc)))
        sqometa2 == Sqrt(Sub(One, Sq(os.lat)))
    IN  << Mul(Mul(os.sma, sqometa2), Cos(os.lon)),
           Mul(Mul(os.sma, sqometa2), Sin(os.lon)),
           Mul(Mul(os.sma, os.lat), sqome2) >>

\* C6: the Cartesian point of every constructed instance is the forward map
\* of its own (e, a, lon, lat); the default instance is the one built from
\* (0, 1, 0, 0).
C6_InternallyConsistent ==
    /\ Default = TryFromOSE(Zero, One, Zero, Zero).val
    /\ (Returned /\ res.tag = "Ok") => cartesian(res.val) = ForwardMap(res.val)

\* The ranges of the consistency sweep: e in [0, 0.9), a in (0, 7.5),
\* lon in (-180, 180) degrees, lat in (-0.9, 0.9).
SweepRange(e, a, lon, lat) ==
    /\ Le(Zero, e) /\ Lt(e, Rat(9, 10))
    /\ Lt(Zero, a) /\ Lt(a, Rat(15, 2))
    /\ Lt(Neg(PI), lon) /\ Lt(lon, PI)
    /\ Lt(Rat(-9, 10), lat) /\ Lt(lat, Rat(9, 10))

\* C7: for (e, a, lon, lat) in the ranges of the sweep, the instance rebuilt
\* from (e, cartesian()) of the instance built from (e, a, lon, lat) has the
\* original semimajor axis, longitude and latitude.
C7_RoundTrip ==
    (pc = "done" /\ SweepRange(args.e, args.a, args.lon, args.lat)) =>
        /\ res2.tag = "Ok"
        /\ semimajor(res2.val) = args.a
        /\ longitude(res2.val) = args.lon
        /\ latitude(res2.val) = args.lat

\* C7 witness: the round trip of (3/5, 3/2, -2.4981, -4/5).
C7_Witness ==
    /\ pc = "done"
    /\ SweepRange(args.e, args.a, args.lon, args.lat)
    /\ args.e = Rat(3, 5) /\ args.a = Rat(3, 2)
    /\ args.lon = Rat(-24981, 10000) /\ args.lat = Rat(-4, 5)
    /\ res2.tag = "Ok"

\* An instance off the degenerate values: a > 0 and |lat| < 1.
NonDegenerate(os) ==
    /\ Lt(Zero, os.sma)
    /\ Lt(Neg(One), os.lat)
    /\ Lt(os.lat, One)

\* C8: for an instance built from oblate spheroidal coordinates with a > 0
\* and |lat| < 1, jacobian() * inverse_jacobian() is the identity.
C8_JacobianInverse ==
    (Returned /\ ctor = "ose" /\ res.tag = "Ok" /\ NonDegenerate(res.val)) =>
        LET eye == MatMul(jacobian(res.val), inverse_jacobian(res.val))
        IN  /\ eye = Identity
            /\ DiffNormSquared(eye, Identity) = Zero

\* C8 witness: the instance built from (4/5, 1/2, 2.2143, 3/5).
C8_Witness ==
    /\ Returned /\ ctor = "ose" /\ res.tag = "Ok" /\ NonDegenerate(res.val)
    /\ args.e = Rat(4, 5) /\ args.a = Rat(1, 2)
    /\ args.lon = Rat(22143, 10000) /\ args.lat = Rat(3, 5)

\* C9: for an instance with a > 0 and |lat| < 1, the i-th contravariant basis
\* vector dotted with the j-th covariant basis vector is 1 for i = j and 0
\* otherwise.
C9_BasisDuality ==
    (Returned /\ res.tag = "Ok" /\ NonDegenerate(res.val)) =>
        LET cov == covariant_basis(res.val)
            cont == contravariant_basis(res.val)
        IN  \A i \in 1..3, j \in 1..3 :
                Dot(cont[i], cov[j]) = IF i = j THEN One ELSE Zero

\* C9 witness: the instance built from the Cartesian point (0, -3, 4) with
\* e = 0.
C9_Witness ==
    /\ Returned /\ ctor = "cart" /\ res.tag = "Ok" /\ NonDegenerate(res.val)
    /\ args.e = Zero /\ args.cart = <<Zero, Num(-3), Num(4)>>
    /\ latitude(res.val) = Rat(4, 5)

\* C10: for an instance with a > 0 and |lat| < 1, covariant_metric() *
\* contravariant_metric() is the identity.
C10_MetricInverse ==
    (Returned /\ res.tag = "Ok" /\ NonDegenerate(res.val)) =>
        LET eye == MatMul(covariant_metric(res.val),
                          contravariant_metric(res.val))
        IN  /\ eye = Identity
            /\ DiffNormSquared(eye, Identity) = Zero

\* C10 witness: the instance built from (3/5, 3/2, 0.9273, -4/5).
C10_Witness ==
    /\ Returned /\ ctor = "ose" /\ res.tag = "Ok" /\ NonDegenerate(res.val)
    /\ args.e = Rat(3, 5) /\ args.a = Rat(3, 2)
    /\ args.lon = Rat(9273, 10000) /\ args.lat = Rat(-4, 5)

\* |lat| < 1: the instance is off the poles.
OffPole(os) == Lt(Neg(One), os.lat) /\ Lt(os.lat, One)

\* C11: for every instance with |lat| < 1, volume_element() is
\* a^2 sqrt(1 - e^2), it is the square root of the determinant of
\* covariant_metric(), and it does not change with the longitude or the
\* latitude-fraction of the instance.
C11_VolumeElement ==
    (Returned /\ res.tag = "Ok" /\ OffPole(res.val)) =>
        LET os == res.val
            det == Determinant(covariant_metric(os))
        IN  /\ volume_element(os) = Mul(Sq(os.sma), Sqrt(Sub(One, Sq(os.ecc))))
            /\ SqrtExact(det)
            /\ Sqrt(det) = volume_element(os)
            /\ \A t \in AngleTable, eta \in {Zero, Rat(3, 5), Rat(-4, 5)} :
                   volume_element([os EXCEPT !.lon = t.rad, !.lat = eta])
                       = volume_element(os)

\* C11 witness: the instance built from (3/5, 3/2, 0.9273, -4/5), whose
\* volume element is 9/4 * 4/5 = 9/5.
C11_Witness ==
    /\ Returned /\ ctor = "ose" /\ res.tag = "Ok" /\ OffPole(res.val)
    /\ args.e = Rat(3, 5) /\ args.a = Rat(3, 2)
    /\ args.lon = Rat(9273, 10000) /\ args.lat = Rat(-4, 5)
    /\ volume_element(res.val) = Rat(9, 5)

\* C12: for every constructed instance with |lat| < 1, the cross product of
\* cartesian() with the first covariant basis vector is the zero vector, and
\* cartesian() is the semimajor axis times that vector.
C12_RadialBasisVector ==
    (Returned /\ res.tag = "Ok" /\ OffPole(res.val)) =>
        LET r == cartesian(res.val)
            z_1 == covariant_basis(res.val)[1]
            a == semimajor(res.val)
        IN  /\ Cross(r, z_1) = <<Zero, Zero, Zero>>
            /\ r = <<Mul(a, z_1[1]), Mul(a, z_1[2]), Mul(a, z_1[3])>>

\* C12 witness: the instance built from (4/5, 3/2, -0.6435, 3/5), at
\* (24/25, -18/25, 27/50).
C12_Witness ==
    /\ Returned /\ ctor = "ose" /\ res.tag = "Ok" /\ OffPole(res.val)
    /\ args.e = Rat(4, 5) /\ args.a = Rat(3, 2)
    /\ args.lon = Rat(-6435, 10000) /\ args.lat = Rat(3, 5)
    /\ cartesian(res.val) = <<Rat(24, 25), Rat(-18, 25), Rat(27, 50)>>

\* surface_tangent has returned (and the instance may have been set from the
\* tangent point since).
Queried == pc \in {"queried", "rebuilt"}

\* pos is outside, on, inside the spheroid: |A pos| > 1, = 1, < 1 with
\* A = diag(1/a, 1/a, 1/semiminor).
AffNormSquared(os, v) ==
    LET v_aff == MatVec(affine(os), v) IN Dot(v_aff, v_aff)
OutsideSpheroid(os, pos) == Gt(AffNormSquared(os, pos), One)
OnSpheroid(os, pos) == AffNormSquared(os, pos) = One

\* pnt is collinear with pos (pnt = 0 included).
Collinear(pos, pnt) == Cross(pos, pnt) = <<Zero, Zero, Zero>>

\* A 3x3 matrix of rank 2: finite entries, determinant 0, and two columns
\* that are linearly independent.
HasRank2(m) ==
    /\ \A i \in 1..3, j \in 1..3 : IsFinite(m[i][j])
    /\ Determinant(m) = Zero
    /\ \E i \in 1..3, j \in 1..3 :
           Cross(Col(m, i), Col(m, j)) /= <<Zero, Zero, Zero>>

\* The matrix of tests::os_surface_tangent: columns e_lon, e_lat of the
\* instance set from (e, tp), and tp - pos.
TangentPlaneMatrix ==
    LET cov == covariant_basis(res2.val)
        p2t == <<Sub(tp[1], qry.pos[1]), Sub(tp[2], qry.pos[2]),
                 Sub(tp[3], qry.pos[3])>>
    IN  FromColumns(cov[2], cov[3], p2t)

\* C13 as stated: for an instance with a > 0, a pos outside the spheroid and
\* a pnt not collinear with pos, with t = surface_tangent(pos, pnt), the
\* matrix with columns (e_lon, e_lat, t - pos), the basis vectors taken from
\* the instance built from (e, t), has determinant zero and rank 2.
C13_TangentPlane ==
    (/\ pc = "rebuilt"
     /\ Lt(Zero, res.val.sma)
     /\ OutsideSpheroid(res.val, qry.pos)
     /\ ~Collinear(qry.pos, qry.pnt)) =>
        /\ Determinant(TangentPlaneMatrix) = Zero
        /\ HasRank2(TangentPlaneMatrix)

\* C13 amended: the same, for the tangent points off the poles of the
\* spheroid (|lat| < 1 in the instance built from (e, t)); at a pole the
\* latitude basis vector has infinite and NaN components.
C13_TangentPlaneOffPole ==
    (/\ pc = "rebuilt"
     /\ Lt(Zero, res.val.sma)
     /\ OutsideSpheroid(res.val, qry.pos)
     /\ ~Collinear(qry.pos, qry.pnt)
     /\ OffPole(res2.val)) =>
        /\ tp = cartesian(res2.val)
        /\ Determinant(TangentPlaneMatrix) = Zero
        /\ HasRank2(TangentPlaneMatrix)

\* C13 witness: a tangent point off the poles and off the axes, for a pos
\* outside a spheroid with e > 0.
C13_Witness ==
    /\ pc = "rebuilt"
    /\ Lt(Zero, res.val.sma) /\ Lt(Zero, res.val.ecc)
    /\ OutsideSpheroid(res.val, qry.pos)
    /\ ~Collinear(qry.pos, qry.pnt)
    /\ OffPole(res2.val)
    /\ \A i \in 1..3 : tp[i] /= Zero
    /\ HasRank2(TangentPlaneMatrix)

\* C14: for every pos with 0 < |pos|^2 <= 1 and every pnt,
\* unit_circle::tangent(pos, pnt) is pos / |pos|, the unit vector along pos,
\* whatever pnt is.
C14_InsideCircle ==
    (/\ pc = "tangent"
     /\ Lt(Zero, Dot2(qry.pos, qry.pos))
     /\ Le(Dot2(qry.pos, qry.pos), One)) =>
        LET rmag == Sqrt(Dot2(qry.pos, qry.pos))
        IN  /\ tp = <<Div(qry.pos[1], rmag), Div(qry.pos[2], rmag)>>
            /\ Dot2(tp, tp) = One
            /\ qry.pos = <<Mul(rmag, tp[1]), Mul(rmag, tp[2])>>
            /\ \A pnt \in CirclePntGrid : tangent(qry.pos, pnt) = tp

\* C14 witness: pos = (-12/25, 9/25), at distance 3/5, with pnt = (1, -1):
\* the point returned is (-4/5, 3/5).
C14_Witness ==
    /\ pc = "tangent"
    /\ qry.pos = <<Rat(-12, 25), Rat(9, 25)>>
    /\ qry.pnt = <<One, Neg(One)>>
    /\ tp = <<Rat(-4, 5), Rat(3, 5)>>

\* C15: for every constructed instance with a > 0 and every pos and pnt
\* (pnt parallel or anti-parallel to pos, pnt = 0 and pos = 0 included),
\* surface_tangent returns a finite Cartesian point.
C15_QueriesTotal ==
    (Queried /\ Lt(Zero, res.val.sma)) =>
        \A i \in 1..3 : IsFinite(tp[i])

\* C16: for |pos| > 1 and every pnt, the point tp returned by
\* unit_circle::tangent is on the unit circle, |tp| = 1, and the line from it
\* to pos is tangent to the circle, (pos - tp) . tp = 0.
C16_TrueTangentPoint ==
    (pc = "tangent" /\ Gt(Dot2(qry.pos, qry.pos), One)) =>
        /\ Dot2(tp, tp) = One
        /\ Dot2(<<Sub(qry.pos[1], tp[1]), Sub(qry.pos[2], tp[2])>>, tp) = Zero

\* C16 witness: pos = (-1, 4/3), at distance 5/3, with pnt = (1, 0): the
\* point returned is (7/25, 24/25).
C16_Witness ==
    /\ pc = "tangent"
    /\ qry.pos = <<Neg(One), Rat(4, 3)>>
    /\ qry.pnt = <<One, Zero>>
    /\ tp = <<Rat(7, 25), Rat(24, 25)>>

\* The two candidates of unit_circle::tangent for |pos| > 1,
\* (|pos| - s cos a) rhat + sign * s sin a * rhat_orth, with s = sqrt(|pos|^2
\* - 1), sin a = 1/|pos|, cos a = s/|pos|, and pnt . rhat_orth.
TangentCandidate(pos, sign) ==
    LET rmag == Sqrt(Dot2(pos, pos))
        rhat == <<Div(pos[1], rmag), Div(pos[2], rmag)>>
        rhat_orth == <<Neg(rhat[2]), rhat[1]>>
        s == Sqrt(Sub(Dot2(pos, pos), One))
        along == Sub(rmag, Mul(s, Div(s, rmag)))
        across == Mul(Num(sign), Mul(s, Div(One, rmag)))
    IN  << Add(Mul(along, rhat[1]), Mul(across, rhat_orth[1])),
           Add(Mul(along, rhat[2]), Mul(across, rhat_orth[2])) >>
RhatOrth(pos) ==
    LET rmag == Sqrt(Dot2(pos, pos))
    IN  <<Neg(Div(pos[2], rmag)), Div(pos[1], rmag)>>

\* C17: for |pos| > 1, unit_circle::tangent returns the '+' candidate exactly
\* when pnt . rhat_orth > 0 and the '-' candidate otherwise (pnt . rhat_orth
\* = 0 included: pnt = 0, pnt collinear with pos), and the point returned is
\* on the side of pnt: (tp . rhat_orth) (pnt . rhat_orth) >= 0.
C17_SideSelection ==
    (pc = "tangent" /\ Gt(Dot2(qry.pos, qry.pos), One)) =>
        LET side == Dot2(qry.pnt, RhatOrth(qry.pos))
        IN  /\ TangentCandidate(qry.pos, 1) /= TangentCandidate(qry.pos, -1)
            /\ Gt(side, Zero) <=> tp = TangentCandidate(qry.pos, 1)
            /\ ~Gt(side, Zero) <=> tp = TangentCandidate(qry.pos, -1)
            /\ Ge(Mul(Dot2(tp, RhatOrth(qry.pos)), side), Zero)

\* C17 witness: pos = (5/4, 0) with pnt = (-1, 0), anti-parallel to pos, so
\* pnt . rhat_orth = 0: the '-' candidate (4/5, -3/5) is returned.
C17_Witness ==
    /\ pc = "tangent"
    /\ qry.pos = <<Rat(5, 4), Zero>>
    /\ qry.pnt = <<Neg(One), Zero>>
    /\ Dot2(qry.pnt, RhatOrth(qry.pos)) = Zero
    /\ tp = TangentCandidate(qry.pos, -1)
    /\ tp = <<Rat(4, 5), Rat(-3, 5)>>

\* The component of v orthogonal to w.
OrthogonalPart(v, w) ==
    LET k == Div(Dot(v, w), Dot(w, w))
    IN  <<Sub(v[1], Mul(k, w[1])), Sub(v[2], Mul(k, w[2])),
          Sub(v[3], Mul(k, w[3]))>>

\* C18: for a pos outside the spheroid and a pnt not collinear with pos, the
\* point returned by surface_tangent is on the side of pnt: in unit-sphere
\* space its component orthogonal to A pos has a strictly positive dot
\* product with the component of A pnt orthogonal to A pos.  Inside
\* surface_tangent the projected position is (0, |A pos|), the projected
\* pointing vector has a non-positive first coordinate, and
\* unit_circle::tangent takes its '+' branch.
C18_NearestSide ==
    (/\ Queried
     /\ Lt(Zero, res.val.sma)
     /\ OutsideSpheroid(res.val, qry.pos)
     /\ ~Collinear(qry.pos, qry.pnt)) =>
        LET f == tangent_frame(res.val, qry.pos, qry.pnt)
            tp_aff == MatVec(affine(res.val), tp)
        IN  /\ Gt(Dot(OrthogonalPart(tp_aff, f.pos_aff),
                      OrthogonalPart(f.pnt_aff, f.pos_aff)), Zero)
            /\ f.r = <<Zero, Sqrt(Dot(f.pos_aff, f.pos_aff))>>
            /\ Le(f.p[1], Zero)
            /\ Gt(Dot2(f.p, RhatOrth(f.r)), Zero)
            /\ tangent(f.r, f.p) = TangentCandidate(f.r, 1)
            /\ tangent(f.r, f.p) /= TangentCandidate(f.r, -1)

\* C18 witness: e = 3/5, a = 1, pos = (-4/3, -1, 0), pnt = (0, 0, -4/5): the
\* tangent point (-12/25, -9/25, -16/25) is below the equatorial plane, as
\* pnt points.
C18_Witness ==
    /\ pc = "queried"
    /\ res.val.ecc = Rat(3, 5) /\ res.val.sma = One
    /\ qry.pos = <<Rat(-4, 3), Neg(One), Zero>>
    /\ qry.pnt = <<Zero, Zero, Rat(-4, 5)>>
    /\ OutsideSpheroid(res.val, qry.pos)
    /\ ~Collinear(qry.pos, qry.pnt)
    /\ tp = <<Rat(-12, 25), Rat(-9, 25), Rat(-16, 25)>>

\* C19: for a pos strictly inside the spheroid (0 < |A pos| < 1) and a pnt
\* not collinear with pos, surface_tangent returns pos / |A pos|, the radial
\* projection of pos onto the spheroid, which is on the spheroid and is the
\* same for every such pnt.
C19_InsideSpheroid ==
    (/\ Queried
     /\ Lt(Zero, res.val.sma)
     /\ Lt(Zero, AffNormSquared(res.val, qry.pos))
     /\ Lt(AffNormSquared(res.val, qry.pos), One)
     /\ ~Collinear(qry.pos, qry.pnt)) =>
        LET rmag == Sqrt(AffNormSquared(res.val, qry.pos))
        IN  /\ tp = <<Div(qry.pos[1], rmag), Div(qry.pos[2], rmag),
                      Div(qry.pos[3], rmag)>>
            /\ OnSpheroid(res.val, tp)
            /\ \A q \in SpherePntGrid :
                   LET pnt == MatVec(affine_inverse(res.val), q)
                       zhat == Cross(MatVec(affine(res.val), qry.pos), q)
                   IN  (/\ SqrtExact(Dot(zhat, zhat))
                        /\ ~Collinear(qry.pos, pnt)) =>
                           surface_tangent(res.val, qry.pos, pnt) = tp

\* C19 witness: e = 4/5, a = 3/2 (semiminor 9/10), pos = (0, 18/25, 72/125)
\* at |A pos| = 4/5, pnt = (0, 0, 9/10): the point returned is
\* (0, 9/10, 18/25).
C19_Witness ==
    /\ pc = "queried"
    /\ res.val.ecc = Rat(4, 5) /\ res.val.sma = Rat(3, 2)
    /\ qry.pos = <<Zero, Rat(18, 25), Rat(72, 125)>>
    /\ qry.pnt = <<Zero, Zero, Rat(9, 10)>>
    /\ AffNormSquared(res.val, qry.pos) = Rat(16, 25)
    /\ tp = <<Zero, Rat(9, 10), Rat(18, 25)>>

=============================================================================
